---- MODULE Spec2Model ----
(***************************************************************************)
(* bookmark-miner (src/bookmark_miner.py): the analysis pipeline           *)
(*   BookmarkParser.parse_chrome  -> flat sequence of Bookmark records     *)
(*   ProjectAnalyzer.categorize / calculate_buildability / analyze         *)
(*   main's summary counts                                                 *)
(*                                                                         *)
(* Text is modelled by TLA+ strings over printable ASCII without           *)
(* whitespace other than the space, control characters or brackets.        *)
(* Python floats are modelled bit-exactly as IEEE-754 doubles (see the     *)
(* section "binary64 arithmetic").  ProjectIdea.concepts is not modelled:  *)
(* its order depends on Python's per-process string hashing and no         *)
(* property below reads it.                                                *)
(***************************************************************************)
EXTENDS Integers, Sequences, FiniteSets, TLC

VARIABLES data, bookmarks, buildable_only, ideas, summary, pc

vars == <<data, bookmarks, buildable_only, ideas, summary, pc>>

(***************************************************************************)
(* Bounds of the model.                                                    *)
(***************************************************************************)
\* nodes (folders, leaves, malformed nodes) in one bookmarks document
MaxNodes == 4
\* Bookmark records handed to analyze in SpecAnalyze
MaxBookmarks == 3

(***************************************************************************)
(* Python values                                                           *)
(***************************************************************************)
\* Python's None, as returned by dict.get for a missing key
None == "<None>"

\* dict.get(key, default) on a JSON object modelled as a TLA+ record
Get(node, key, default) == IF key \in DOMAIN node THEN node[key] ELSE default

\* sub in s, for Python strings
Contains(sub, s) ==
    \E i \in 1..(Len(s) - Len(sub) + 1) : SubSeq(s, i, i + Len(sub) - 1) = sub

UpperAlpha == "ABCDEFGHIJKLMNOPQRSTUVWXYZ"
LowerAlpha == "abcdefghijklmnopqrstuvwxyz"

\* str.lower() on the upper-case letters
ToLower ==
    [c \in {SubSeq(UpperAlpha, i, i) : i \in 1..26} |->
        LET i == CHOOSE j \in 1..26 : SubSeq(UpperAlpha, j, j) = c
        IN  SubSeq(LowerAlpha, i, i)]

\* str.lower() of one character
LowerChar(c) == IF c \in DOMAIN ToLower THEN ToLower[c] ELSE c

RECURSIVE Lower(_)
\* str.lower()
Lower(s) == IF Len(s) = 0 THEN ""
            ELSE IF Len(s) = 1 THEN LowerChar(s)
            ELSE Lower(SubSeq(s, 1, Len(s) \div 2))
                 \o Lower(SubSeq(s, Len(s) \div 2 + 1, Len(s)))

RECURSIVE Join(_, _)
\* sep.join(parts)
Join(sep, parts) ==
    IF Len(parts) = 0 THEN ""
    ELSE IF Len(parts) = 1 THEN parts[1]
    ELSE parts[1] \o sep \o Join(sep, Tail(parts))

\* str(n) for the counts 0..9 that occur
Str(n) == SubSeq("0123456789", n + 1, n + 1)

(***************************************************************************)
(* binary64 arithmetic.  Every float the scorer computes is a multiple of  *)
(* 2^-56 of magnitude below 4, so a float is a sign s and a magnitude      *)
(* (h * 2^40 + m * 2^20 + l) * 2^-56 with at most 53 significant bits;     *)
(* zero has s = 1.  Sums and products are computed exactly and rounded to  *)
(* nearest, ties to even, as the hardware does.                            *)
(***************************************************************************)
\* one limb of a magnitude holds 20 bits
Limb == 1024 * 1024

Float(s, h, m, l) == [s |-> s, h |-> h, m |-> m, l |-> l]

\* carry the limbs of a non-negative magnitude into range
Carry(h, m, l) ==
    LET m1 == m + (l \div Limb)
    IN  [h |-> h + (m1 \div Limb), m |-> m1 % Limb, l |-> l % Limb]

MagLess(a, b) ==
    \/ a.h < b.h
    \/ a.h = b.h /\ a.m < b.m
    \/ a.h = b.h /\ a.m = b.m /\ a.l < b.l

RECURSIVE Bits(_)
\* bit length of a natural number
Bits(n) == IF n = 0 THEN 0 ELSE 1 + Bits(n \div 2)

BitLen(a) == IF a.h > 0 THEN 40 + Bits(a.h)
             ELSE IF a.m > 0 THEN 20 + Bits(a.m) ELSE Bits(a.l)

RECURSIVE Pow2(_)
Pow2(n) == IF n = 0 THEN 1 ELSE 2 * Pow2(n - 1)

\* round an exact magnitude to 53 significant bits, ties to even
Round53(a) ==
    IF BitLen(a) <= 53 THEN a
    ELSE LET q    == Pow2(BitLen(a) - 53)
             rem  == a.l % q
             low  == a.l - rem
             up   == \/ 2 * rem > q
                     \/ 2 * rem = q /\ (low \div q) % 2 = 1
         IN  Carry(a.h, a.m, IF up THEN low + q ELSE low)

Signed(s, a) ==
    IF a.h = 0 /\ a.m = 0 /\ a.l = 0 THEN Float(1, 0, 0, 0)
    ELSE Float(s, a.h, a.m, a.l)

\* x + y
FAdd(x, y) ==
    IF x.s = y.s
    THEN Signed(x.s, Round53(Carry(x.h + y.h, x.m + y.m, x.l + y.l)))
    ELSE LET big   == IF MagLess(x, y) THEN y ELSE x
             small == IF MagLess(x, y) THEN x ELSE y
             \* big - small, borrowing 2^20 into the two low limbs
         IN  Signed(big.s,
                    Round53(Carry(big.h - small.h - 1,
                                  big.m - small.m + Limb - 1,
                                  big.l - small.l + Limb)))

FNeg(x) == Signed(-x.s, x)

\* x - y
FSub(x, y) == FAdd(x, FNeg(y))

\* x * k for a float x >= 0 and a small integer count k
FMulInt(x, k) == Signed(x.s, Round53(Carry(x.h * k, x.m * k, x.l * k)))

\* x < y
FLess(x, y) ==
    IF x.s # y.s THEN x.s < y.s
    ELSE IF x.s = 1 THEN MagLess(x, y) ELSE MagLess(y, x)

\* x >= y
FGeq(x, y) == ~FLess(x, y)

\* min(a, b) and max(a, b) of Python: the first argument unless the second
\* is strictly smaller (larger)
PyMin(a, b) == IF FLess(b, a) THEN b ELSE a
PyMax(a, b) == IF FLess(a, b) THEN b ELSE a

\* the literals of the source, as the doubles Python reads them as
F_0_0  == Float(1, 0, 0, 0)
\* 0.1 = 0x1.999999999999ap-4
F_0_1  == Float(1, 6553, 629145, 629146)
\* 0.15 = 0x1.3333333333333p-3
F_0_15 == Float(1, 9830, 419430, 419430)
\* 0.2 = 0x1.999999999999ap-3
F_0_2  == Float(1, 13107, 209715, 209716)
\* 0.5 = 0x1.0p-1
F_0_5  == Float(1, 32768, 0, 0)
\* 0.6 = 0x1.3333333333333p-1
F_0_6  == Float(1, 39321, 629145, 629144)
\* 1.0 = 0x1.0p+0
F_1_0  == Float(1, 65536, 0, 0)

(***************************************************************************)
(* Bookmark (dataclass, lines 17-34)                                       *)
(***************************************************************************)
\* first index >= start of a character of s that is in the string chars, or
\* Len(s) + 1 when there is none
FindAny(chars, s, start) ==
    LET hits == {i \in start..Len(s) : Contains(SubSeq(s, i, i), chars)}
    IN  IF hits = {} THEN Len(s) + 1
        ELSE CHOOSE i \in hits : \A j \in hits : i <= j

Digits == "0123456789"
\* urllib.parse.scheme_chars
SchemeChars == LowerAlpha \o UpperAlpha \o Digits \o "+-."

RECURSIVE LStrip(_)
\* url.lstrip(_WHATWG_C0_CONTROL_OR_SPACE) of urlsplit: of the model's
\* alphabet only the space is stripped
LStrip(s) ==
    IF Len(s) = 0 THEN ""
    ELSE IF SubSeq(s, 1, 1) = " " THEN LStrip(SubSeq(s, 2, Len(s)))
    ELSE s

\* urlparse(url).netloc: leading spaces are stripped, a scheme (a letter, then
\* scheme characters up to the first colon) is split off, and what follows
\* "//" up to the first of "/", "?", "#" is the netloc
Netloc(url) ==
    LET u    == LStrip(url)
        i    == FindAny(":", u, 1)
        sch  == /\ 1 < i /\ i <= Len(u)
                /\ Contains(SubSeq(u, 1, 1), LowerAlpha \o UpperAlpha)
                /\ \A k \in 1..(i - 1) : Contains(SubSeq(u, k, k), SchemeChars)
        rest == IF sch THEN SubSeq(u, i + 1, Len(u)) ELSE u
    IN  IF Len(rest) >= 2 /\ SubSeq(rest, 1, 2) = "//"
        THEN SubSeq(rest, 3, FindAny("/?#", rest, 3) - 1)
        ELSE ""

\* \w and \s of the regular expression, on the model's alphabet
IsWordOrSpace(c) == Contains(c, LowerAlpha \o UpperAlpha \o Digits \o "_ ")

RECURSIVE Strip(_)
\* str.strip()
Strip(s) ==
    IF Len(s) = 0 THEN ""
    ELSE IF SubSeq(s, 1, 1) = " " THEN Strip(SubSeq(s, 2, Len(s)))
    ELSE IF SubSeq(s, Len(s), Len(s)) = " " THEN Strip(SubSeq(s, 1, Len(s) - 1))
    ELSE s

\* Bookmark._clean_name: re.sub(r'\s*[-|]\s*[\w\s]+$', '', name).strip() or name
\* The pattern matches a suffix: spaces, one separator, then one or more
\* word or space characters up to the end of the string.
clean_name(name) ==
    LET seps == {j \in 1..(Len(name) - 1) :
                    /\ Contains(SubSeq(name, j, j), "-|")
                    /\ \A k \in (j + 1)..Len(name) : IsWordOrSpace(SubSeq(name, k, k))}
    IN  IF seps = {} THEN (IF Strip(name) = "" THEN name ELSE Strip(name))
        ELSE LET j       == CHOOSE x \in seps : TRUE
                 starts  == {i \in 1..j : \A k \in i..(j - 1) : SubSeq(name, k, k) = " "}
                 start   == CHOOSE i \in starts : \A i2 \in starts : i <= i2
                 cleaned == Strip(SubSeq(name, 1, start - 1))
             IN  IF cleaned = "" THEN name ELSE cleaned

\* Bookmark(name, url, date_added, folder_path) with __post_init__
Bookmark(name, url, date_added, folder_path) ==
    [name |-> name, url |-> url, date_added |-> date_added,
     folder_path |-> folder_path, domain |-> Netloc(url),
     clean_name |-> clean_name(name)]

(***************************************************************************)
(* ProjectAnalyzer (lines 104-223)                                         *)
(***************************************************************************)
\* CATEGORIES, in the order the dict literal defines (and iterates) them
CATEGORIES == <<
    [category |-> "tools",
     keywords |-> <<"tool", "editor", "IDE", "cli", "terminal", "utility", "app", "software">>],
    [category |-> "saas",
     keywords |-> <<"dashboard", "platform", "service", "api", "cloud", "app", "automation">>],
    [category |-> "games",
     keywords |-> <<"game", "unity", "unreal", "godot", "phaser", "pygame", "engine">>],
    [category |-> "hardware",
     keywords |-> <<"arduino", "raspberry", "pi", "iot", "sensor", "esp32", "microcontroller">>],
    [category |-> "web",
     keywords |-> <<"html", "css", "javascript", "react", "vue", "svelte", "frontend", "backend">>],
    [category |-> "ai_ml",
     keywords |-> <<"ai", "ml", "machine learning", "neural", "gpt", "llm", "model", "tensorflow">>],
    [category |-> "data",
     keywords |-> <<"database", "sql", "nosql", "analytics", "visualization", "dashboard">>],
    [category |-> "creative",
     keywords |-> <<"design", "art", "music", "video", "generator", "creator">>],
    [category |-> "dev_ops",
     keywords |-> <<"docker", "kubernetes", "ci/cd", "deploy", "infrastructure", "monitoring">>],
    [category |-> "mobile",
     keywords |-> <<"ios", "android", "mobile", "app", "flutter", "react native">> ] >>

EASY_INDICATORS ==
    <<"cli", "script", "bot", "scraper", "parser", "converter", "simple", "basic">>
HARD_INDICATORS ==
    <<"platform", "enterprise", "scale", "infrastructure", "distributed", "complex">>

\* sum(1 for kw in keywords if kw.lower() in text)
KeywordScore(keywords, text) ==
    Cardinality({k \in 1..Len(keywords) : Contains(Lower(keywords[k]), text)})

\* sum(1 for ind in indicators if ind in text)
IndicatorCount(indicators, text) ==
    Cardinality({k \in 1..Len(indicators) : Contains(indicators[k], text)})

\* a mutation of MaxByScore: the first item wins whatever the later scores
MaxByScoreFirst(items, best) == best

RECURSIVE MaxByScoreLast(_, _)
\* a mutation of MaxByScore: of the items with the highest score the last wins
MaxByScoreLast(items, best) ==
    IF Len(items) = 0 THEN best
    ELSE MaxByScoreLast(Tail(items),
                        IF Head(items).score >= best.score THEN Head(items) ELSE best)

RECURSIVE MaxByScore(_, _)
\* max(items, key=lambda x: x[1]): the first item, in iteration order, whose
\* score no later item exceeds.  best is the maximum so far.
MaxByScore(items, best) ==
    IF Len(items) = 0 THEN best
    ELSE MaxByScore(Tail(items),
                    IF Head(items).score > best.score THEN Head(items) ELSE best)

\* categorize(bookmark)
categorize(bookmark) ==
    LET text   == Lower(bookmark.name \o " " \o bookmark.url \o " " \o bookmark.domain)
        all    == [c \in 1..Len(CATEGORIES) |->
                      [category |-> CATEGORIES[c].category,
                       score    |-> KeywordScore(CATEGORIES[c].keywords, text)]]
        scores == SelectSeq(all, LAMBDA e : e.score > 0)
    IN  IF Len(scores) = 0 THEN "other"
        ELSE MaxByScore(Tail(scores), Head(scores)).category

\* 'github.com' in bookmark.url
IsGitHub(bookmark) == Contains("github.com", bookmark.url)

\* a mutation of WeekendFriendly: tools is missing
WeekendFriendlyNoTools == {"cli", "web"}

\* the categories of line 176
WeekendFriendly == {"tools", "cli", "web"}

\* the categories of line 179
TimeConsuming == {"hardware", "infrastructure", "platform"}

\* a mutation of Clamp: the upper limit is not applied
ClampBelowOnly(score) == PyMax(F_0_0, score)

\* max(0.0, min(1.0, score))
Clamp(score) == PyMax(F_0_0, PyMin(F_1_0, score))

\* calculate_buildability(bookmark, category): [score, reasoning]
calculate_buildability(bookmark, category) ==
    LET text       == Lower(bookmark.name \o " " \o bookmark.url)
        easy_count == IndicatorCount(EASY_INDICATORS, text)
        hard_count == IndicatorCount(HARD_INDICATORS, text)
        s1 == IF easy_count > 0 THEN FAdd(F_0_5, FMulInt(F_0_1, easy_count)) ELSE F_0_5
        r1 == IF easy_count > 0
              THEN <<"Contains " \o Str(easy_count) \o " easy-build indicators">>
              ELSE <<>>
        s2 == IF hard_count > 0 THEN FSub(s1, FMulInt(F_0_15, hard_count)) ELSE s1
        r2 == IF hard_count > 0
              THEN Append(r1, "Contains " \o Str(hard_count) \o " complex indicators")
              ELSE r1
        s3 == IF category \in WeekendFriendly THEN FAdd(s2, F_0_15)
              ELSE IF category \in TimeConsuming
                   THEN FSub(s2, F_0_2)
              ELSE s2
        r3 == IF category \in WeekendFriendly
              THEN Append(r2, "Category is weekend-friendly")
              ELSE IF category \in TimeConsuming
                   THEN Append(r2, "Category typically requires more time")
              ELSE r2
        s4 == IF IsGitHub(bookmark) THEN FAdd(s3, F_0_1) ELSE s3
        reasons == IF IsGitHub(bookmark)
                   THEN Append(r3, "GitHub project (likely has code reference)")
                   ELSE r3
    IN  [score     |-> Clamp(s4),
         reasoning |-> IF Len(reasons) > 0 THEN Join("; ", reasons)
                       ELSE "Standard project complexity"]

\* the ProjectIdea analyze builds for one bookmark (lines 200-217)
ProjectIdea(bm) ==
    LET category == categorize(bm)
        sr       == calculate_buildability(bm, category)
    IN  [title            |-> bm.clean_name,
         url              |-> bm.url,
         category         |-> category,
         buildable_score  |-> sr.score,
         weekend_feasible |-> FGeq(sr.score, F_0_6),
         reasoning        |-> sr.reasoning,
         source_bookmark  |-> bm.name]

\* a mutation of InsertDesc: the idea goes before the ideas of equal score
InsertDescBeforeTies(sorted, idea) ==
    LET n == Cardinality({i \in 1..Len(sorted) :
                            FLess(idea.buildable_score, sorted[i].buildable_score)})
    IN  SubSeq(sorted, 1, n) \o <<idea>> \o SubSeq(sorted, n + 1, Len(sorted))

\* ideas.sort(key=..., reverse=True) inserts one idea into a sorted list: a
\* stable descending sort puts it behind every idea whose score is not smaller
InsertDesc(sorted, idea) ==
    LET n == Cardinality({i \in 1..Len(sorted) :
                            FGeq(sorted[i].buildable_score, idea.buildable_score)})
    IN  SubSeq(sorted, 1, n) \o <<idea>> \o SubSeq(sorted, n + 1, Len(sorted))

RECURSIVE SortDesc(_)
\* ideas.sort(key=lambda x: x.buildable_score, reverse=True)
SortDesc(seq) ==
    IF Len(seq) = 0 THEN <<>>
    ELSE InsertDesc(SortDesc(SubSeq(seq, 1, Len(seq) - 1)), seq[Len(seq)])

\* a mutation of Kept: the filter flag is ignored
KeptAlways(idea, flag) == TRUE

\* whether the loop of analyze appends the idea (lines 205-218)
Kept(idea, flag) == ~(flag /\ ~idea.weekend_feasible)

RECURSIVE Collect(_, _)
\* the loop of analyze (lines 199-218)
Collect(bms, flag) ==
    IF Len(bms) = 0 THEN <<>>
    ELSE LET idea == ProjectIdea(Head(bms))
         IN  (IF Kept(idea, flag) THEN <<idea>> ELSE <<>>) \o Collect(Tail(bms), flag)

\* analyze(bookmarks, buildable_only)
analyze(bms, flag) == SortDesc(Collect(bms, flag))

(***************************************************************************)
(* BookmarkParser.parse_chrome (lines 53-85).  A JSON object is a record;  *)
(* a JSON array is a sequence; the "roots" object, whose items the code    *)
(* iterates in file order, is a sequence of [key, node] entries.           *)
(***************************************************************************)
\* new_path = f"{path}/{folder_name}" if path else folder_name
NewPath(path, folder_name) ==
    IF Len(path) > 0 THEN path \o "/" \o folder_name ELSE folder_name

\* a mutation of IsFolder: every node that is not a leaf is walked as a folder
IsFolderUnlessLeaf(node) == Get(node, "type", None) # "url"

\* node.get('type') == 'folder'
IsFolder(node) == Get(node, "type", None) = "folder"

RECURSIVE traverse(_, _)

RECURSIVE ChildrenReversed(_, _)
\* a mutation of TraverseChildren: the children are walked last to first
ChildrenReversed(children, new_path) ==
    IF Len(children) = 0 THEN <<>>
    ELSE ChildrenReversed(Tail(children), new_path) \o traverse(Head(children), new_path)

RECURSIVE TraverseChildren(_, _)
\* for child in children: traverse(child, new_path)
TraverseChildren(children, new_path) ==
    IF Len(children) = 0 THEN <<>>
    ELSE traverse(Head(children), new_path) \o TraverseChildren(Tail(children), new_path)

\* traverse(node, path): the records it appends to bookmarks, in order
traverse(node, path) ==
    IF Get(node, "type", None) = "url"
    THEN << Bookmark(Get(node, "name", "Untitled"), Get(node, "url", ""),
                     Get(node, "date_added", None), path) >>
    ELSE IF IsFolder(node)
    THEN TraverseChildren(Get(node, "children", <<>>),
                          NewPath(path, Get(node, "name", "Unnamed")))
    ELSE <<>>

\* a mutation of AllowedRoots: every root is walked
AllowedRootsAndTrash == {"bookmark_bar", "other", "synced", "trash"}

\* the roots parse_chrome walks (line 82)
AllowedRoots == {"bookmark_bar", "other", "synced"}

RECURSIVE TraverseRoots(_)
\* for root_name, root_node in roots.items(): ...
TraverseRoots(roots) ==
    IF Len(roots) = 0 THEN <<>>
    ELSE (IF Head(roots).key \in AllowedRoots
          THEN traverse(Head(roots).node, Head(roots).key)
          ELSE <<>>) \o TraverseRoots(Tail(roots))

\* parse_chrome, from the parsed JSON document on
parse_chrome(doc) == TraverseRoots(Get(doc, "roots", <<>>))

(***************************************************************************)
(* Inputs: bookmark documents of at most MaxNodes nodes.                   *)
(***************************************************************************)
\* nodes without children: two leaves, a leaf without name and url, a node
\* of unrecognized kind, a node without kind tag, a folder without children
Childless ==
    { [type |-> "url", name |-> "Awesome CLI Tool - GitHub",
       url |-> "https://github.com/foo/bar", date_added |-> "13350000000000000"],
      [type |-> "url", name |-> "Docs", url |-> "https://example.com/?ref=github.com"],
      [type |-> "url"],
      [type |-> "separator", name |-> "sep"],
      [name |-> "Lost", url |-> "https://example.com/lost"],
      [type |-> "folder", name |-> "Dev"] }

\* nodes with children: a named folder, a folder without name, a node of
\* unrecognized kind that has children
Containers == {"named folder", "unnamed folder", "group"}

\* the node of kind c with the array children
WithChildren(c, children) ==
    CASE c = "named folder"   -> [type |-> "folder", name |-> "Dev", children |-> children]
      [] c = "unnamed folder" -> [type |-> "folder", children |-> children]
      [] c = "group"          -> [type |-> "group", name |-> "Tabs", children |-> children]

RECURSIVE ForestsOfSize(_, _, _)
\* the sequences of k trees that have n nodes in all, T[m] being the trees
\* of m nodes
ForestsOfSize(T, n, k) ==
    IF k = 0 THEN (IF n = 0 THEN {<<>>} ELSE {})
    ELSE UNION { { <<t>> \o f : t \in T[m], f \in ForestsOfSize(T, n - m, k - 1) }
                 : m \in 1..(n - k + 1) }

RECURSIVE TreeTable(_)
\* <<the trees of 1 node, ..., the trees of n nodes>>
TreeTable(n) ==
    IF n = 0 THEN <<>>
    ELSE LET T == TreeTable(n - 1)
             F == UNION { ForestsOfSize(T, n - 1, k) : k \in 0..(n - 1) }
         IN  Append(T, (IF n = 1 THEN Childless ELSE {})
                       \cup { WithChildren(c, f) : c \in Containers, f \in F })

\* the keys of the "roots" object, in file order
RootKeys == { <<"bookmark_bar">>, <<"other", "bookmark_bar">>, <<"trash", "synced">> }

\* the trees of 1, ..., MaxNodes nodes
Trees == TreeTable(MaxNodes)

\* whether doc is a document of at most MaxNodes nodes: one without
\* "roots", or one or two roots under a sequence of keys of RootKeys
IsDocument(doc) ==
    \/ doc = [version |-> "1"]
    \/ \E keys \in RootKeys, a \in 1..MaxNodes :
          \E t1 \in Trees[a] :
             IF Len(keys) = 1
             THEN doc = [version |-> "1",
                         roots |-> << [key |-> keys[1], node |-> t1] >>]
             ELSE \E b \in 1..(MaxNodes - a) :
                     \E t2 \in Trees[b] :
                        doc = [version |-> "1",
                               roots |-> << [key |-> keys[1], node |-> t1],
                                            [key |-> keys[2], node |-> t2] >>]

\* the (name, url) pairs SpecAnalyze draws its Bookmark records from
BookmarkPool ==
    { Bookmark(e[1], e[2], None, "") : e \in {
        <<"Awesome CLI Tool - GitHub", "https://github.com/foo/bar">>,
        <<"Docs", "https://example.com/?ref=github.com">>,
        <<"Simple basic cli script bot scraper parser converter",
          "https://github.com/x/tool">>,
        <<"Enterprise scale complex distributed", "https://arduino.cc/sensor">>,
        <<"Notes", "https://example.org">>,
        <<"React vue app", " https://example.org/m">>,
        <<"React app | Site", "https://example.net">> } }

RECURSIVE SeqsUpTo(_, _)
\* the sequences of at most n elements of S
SeqsUpTo(S, n) ==
    IF n = 0 THEN {<<>>}
    ELSE LET shorter == SeqsUpTo(S, n - 1)
         IN  shorter \cup { Append(q, x) : q \in shorter, x \in S }

(***************************************************************************)
(* The run of main (lines 333-347), in its two phases: SpecParse reads    *)
(* a document, SpecAnalyze analyses a parsed sequence of records.          *)
(***************************************************************************)
Init ==
    /\ IsDocument(data)
    /\ bookmarks = <<>>
    /\ buildable_only = FALSE
    /\ ideas = <<>>
    /\ summary = [total |-> 0, weekend_count |-> 0]
    /\ pc = "start"

\* bookmarks = BookmarkParser.parse_chrome(bookmarks_file)
ParseChrome ==
    /\ pc = "start"
    /\ bookmarks' = parse_chrome(data)
    /\ pc' = "parsed"
    /\ UNCHANGED <<data, buildable_only, ideas, summary>>

\* sum(1 for i in ideas if i.weekend_feasible)
CountFeasible(is) == Cardinality({i \in 1..Len(is) : is[i].weekend_feasible})

\* the counts main prints for the ideas is (lines 341-347)
Summary(is, flag) ==
    [total         |-> Len(is),
     weekend_count |-> IF flag THEN Len(is) ELSE CountFeasible(is)]

\* ideas = analyzer.analyze(bookmarks, buildable_only=args.buildable), and
\* the counts of the ideas (lines 337-347)
Analyze ==
    /\ pc = "parsed"
    /\ \E flag \in BOOLEAN :
          /\ buildable_only' = flag
          /\ ideas' = analyze(bookmarks, flag)
          /\ summary' = Summary(ideas', flag)
    /\ pc' = "done"
    /\ UNCHANGED <<data, bookmarks>>

NextParse == ParseChrome

SpecParse == Init /\ [][NextParse]_vars

\* analyze on every sequence of at most MaxBookmarks records of the pool
InitAnalyze ==
    /\ data = [version |-> "1"]
    /\ bookmarks \in SeqsUpTo(BookmarkPool, MaxBookmarks)
    /\ buildable_only = FALSE
    /\ ideas = <<>>
    /\ summary = [total |-> 0, weekend_count |-> 0]
    /\ pc = "parsed"

NextAnalyze == Analyze

SpecAnalyze == InitAnalyze /\ [][NextAnalyze]_vars

(***************************************************************************)
(* Notions the properties of the parser are stated in: the positions of a  *)
(* document.  A position <<r, c1, ..., cn>> is the node reached from the   *)
(* r-th root by taking child c1, then c2, ...                              *)
(***************************************************************************)
Roots(doc) == Get(doc, "roots", <<>>)

RECURSIVE NodeUnder(_, _)
NodeUnder(node, path) ==
    IF Len(path) = 0 THEN node
    ELSE NodeUnder(Get(node, "children", <<>>)[Head(path)], Tail(path))

\* the node at position p
At(doc, p) == NodeUnder(Roots(doc)[p[1]].node, Tail(p))

RECURSIVE PositionsUnder(_, _)
PositionsUnder(node, p) ==
    {p} \cup UNION { PositionsUnder(Get(node, "children", <<>>)[i], Append(p, i))
                     : i \in 1..Len(Get(node, "children", <<>>)) }

Positions(doc) ==
    UNION { PositionsUnder(Roots(doc)[r].node, <<r>>) : r \in 1..Len(Roots(doc)) }

Kind(doc, p) == Get(At(doc, p), "type", None)

\* the proper ancestors of p, from the root down
Ancestors(p) == [k \in 1..(Len(p) - 1) |-> SubSeq(p, 1, k)]

\* p lies under one of the three roots the parser reads and every node above
\* it is a folder
ThroughFolders(doc, p) ==
    /\ Roots(doc)[p[1]].key \in {"bookmark_bar", "other", "synced"}
    /\ \A k \in 1..(Len(p) - 1) : Kind(doc, Ancestors(p)[k]) = "folder"

\* the leaves reachable through folders from the roots the parser reads
Leaves(doc) ==
    {p \in Positions(doc) : Kind(doc, p) = "url" /\ ThroughFolders(doc, p)}

\* p is met before q in a depth-first walk, roots and children in file order
Before(p, q) ==
    \E k \in 1..Len(p) :
        /\ k <= Len(q)
        /\ p[k] < q[k]
        /\ \A j \in 1..(k - 1) : p[j] = q[j]

\* the place of leaf p among the leaves in walk order
Rank(doc, p) == 1 + Cardinality({q \in Leaves(doc) : Before(q, p)})

\* every node is a folder or a leaf
ValidTree(doc) == \A p \in Positions(doc) : Kind(doc, p) \in {"url", "folder"}

\* a node whose kind is missing or unrecognized, or that lacks a field
Malformed(node) ==
    \/ Get(node, "type", None) \notin {"url", "folder"}
    \/ Get(node, "type", None) = "url" /\ ~({"name", "url"} \subseteq DOMAIN node)
    \/ Get(node, "type", None) = "folder" /\ ~({"name", "children"} \subseteq DOMAIN node)

(***************************************************************************)
(* Properties of parse_chrome, checked under SpecParse                     *)
(***************************************************************************)
\* C1: for a document whose nodes are all folders or leaves, the number of
\* records parse_chrome returns is the number of leaves reachable through
\* folders from the roots bookmark_bar, other and synced; folders and the
\* leaves under another root add none.
C1_RecordCountIsLeafCount ==
    (pc = "parsed" /\ ValidTree(data))
        => Len(bookmarks) = Cardinality(Leaves(data))

\* C1 witness: a parsed document of folders and leaves with a leaf under the
\* root "trash", a folder under a read root and two records.
C1_Witness ==
    /\ pc = "parsed" /\ ValidTree(data)
    /\ Len(bookmarks) = 2
    /\ \E p \in Positions(data) :
          Kind(data, p) = "url" /\ Roots(data)[p[1]].key = "trash"
    /\ \E p \in Positions(data) :
          Kind(data, p) = "folder" /\ Roots(data)[p[1]].key = "synced"

\* C2: the records come in pre-order: the record of each leaf stands at the
\* place the leaf has in a depth-first walk that takes roots and children in
\* file order, so of two leaves the one met first comes first, at any depth.
C2_PreOrder ==
    pc = "parsed" =>
        \A p \in Leaves(data) :
            /\ Rank(data, p) <= Len(bookmarks)
            /\ bookmarks[Rank(data, p)].name = Get(At(data, p), "name", "Untitled")
            /\ bookmarks[Rank(data, p)].url = Get(At(data, p), "url", "")
            /\ bookmarks[Rank(data, p)].date_added = Get(At(data, p), "date_added", None)

\* C2 witness: under one root a leaf nested deeper is met before a shallower
\* leaf with another name, and their records come in that order.
C2_Witness ==
    /\ pc = "parsed"
    /\ \E p, q \in Leaves(data) :
          /\ p[1] = q[1] /\ Len(p) > Len(q) /\ Before(p, q)
          /\ bookmarks[Rank(data, p)].name # bookmarks[Rank(data, q)].name
          /\ Rank(data, p) < Rank(data, q)

\* the names of the folders above p, from the root node down
AncestorNames(doc, p) ==
    [k \in 1..(Len(p) - 1) |-> Get(At(doc, Ancestors(p)[k]), "name", "Unnamed")]

\* C3: folder_path is the slash-joined names of the record's ancestor
\* folders from the root down, one segment per ancestor folder and no other,
\* and empty for a record directly at a root.  The root's own name is read
\* either as the name of the root folder or as the root's key, which then
\* stands for the root folder.
C3_FolderPathIsAncestorNames ==
    pc = "parsed" =>
        \A p \in Leaves(data) :
            \/ bookmarks[Rank(data, p)].folder_path = Join("/", AncestorNames(data, p))
            \/ /\ Len(p) > 1
               /\ bookmarks[Rank(data, p)].folder_path =
                     Join("/", <<Roots(data)[p[1]].key>> \o Tail(AncestorNames(data, p)))

\* C10: a malformed node under a read root does not stop the walk: the
\* records are exactly those of the leaves reachable through folders, in walk
\* order, a missing name or url replaced by its default; a node of missing or
\* unrecognized kind gives no record.
C10_MalformedNodesSkipped ==
    (pc = "parsed" /\ \E p \in Positions(data) : Malformed(At(data, p)))
        => /\ Len(bookmarks) = Cardinality(Leaves(data))
           /\ \A p \in Leaves(data) :
                 /\ Rank(data, p) <= Len(bookmarks)
                 /\ bookmarks[Rank(data, p)].name = Get(At(data, p), "name", "Untitled")
                 /\ bookmarks[Rank(data, p)].url = Get(At(data, p), "url", "")

\* C10 witness: in a folder under a read root a node of missing or
\* unrecognized kind stands between two leaves, and both leaves have records.
C10_Witness ==
    /\ pc = "parsed"
    /\ Len(bookmarks) = 2
    /\ \E p, r \in Leaves(data), q \in Positions(data) :
          /\ Before(p, q) /\ Before(q, r)
          /\ Len(p) = Len(q) /\ Len(q) = Len(r)
          /\ ThroughFolders(data, q)
          /\ Kind(data, q) \notin {"url", "folder"}

(***************************************************************************)
(* Properties of the analyzer, checked under SpecAnalyze                   *)
(***************************************************************************)
\* the score analyze gives bookmark bm
ScoreOf(bm) == calculate_buildability(bm, categorize(bm)).score

\* how many elements of the sequence q satisfy Test
CountIf(q, Test(_)) == Cardinality({i \in 1..Len(q) : Test(q[i])})

\* C4: every score analyze returns lies in [0.0, 1.0], however many easy
\* and hard indicators, category adjustment and GitHub bonus apply at once.
C4_ScoreInUnitInterval ==
    pc = "done" =>
        \A i \in 1..Len(ideas) :
            /\ FGeq(ideas[i].buildable_score, F_0_0)
            /\ FGeq(F_1_0, ideas[i].buildable_score)

\* C4 witness: an idea with all eight easy indicators, the tools adjustment
\* and the GitHub bonus (0.5 + 0.8 + 0.15 + 0.1) scores 1.0, and one with
\* four hard indicators in category hardware (0.5 - 0.6 - 0.2) scores 0.0.
C4_Witness ==
    /\ pc = "done"
    /\ \E i, j \in 1..Len(ideas) :
          /\ ideas[i].buildable_score = F_1_0
          /\ ideas[i].reasoning =
                "Contains 8 easy-build indicators; Category is weekend-friendly; "
                \o "GitHub project (likely has code reference)"
          /\ ideas[j].buildable_score = F_0_0
          /\ ideas[j].reasoning =
                "Contains 4 complex indicators; Category typically requires more time"

\* the (name, url) of the bookmark an idea comes from
Source(idea) == <<idea.source_bookmark, idea.url>>

RECURSIVE Sources(_)
\* the sources of a sequence of ideas
Sources(is) == IF Len(is) = 0 THEN <<>> ELSE <<Source(Head(is))>> \o Sources(Tail(is))

RECURSIVE NamesUrls(_)
\* the (name, url) of a sequence of bookmarks
NamesUrls(bms) ==
    IF Len(bms) = 0 THEN <<>> ELSE <<<<Head(bms).name, Head(bms).url>>>> \o NamesUrls(Tail(bms))

\* C5: the ideas analyze returns never increase in score, and ideas of equal
\* score keep the order their bookmarks had in the input: for every score,
\* the sources of the ideas with that score, in output order, are the input
\* bookmarks that have an idea with that score, in input order.
C5_SortedAndStable ==
    pc = "done" =>
        /\ \A i \in 1..(Len(ideas) - 1) :
              FGeq(ideas[i].buildable_score, ideas[i + 1].buildable_score)
        /\ \A i \in 1..Len(ideas) :
              LET v        == ideas[i].buildable_score
                  hasV(x)  == x.buildable_score = v
                  tiedV(n) == \E j \in 1..Len(ideas) : hasV(ideas[j]) /\ Source(ideas[j]) = n
              IN  Sources(SelectSeq(ideas, hasV)) = SelectSeq(NamesUrls(bookmarks), tiedV)

\* C5 witness: the sort moved an idea forward, and two ideas of equal score
\* from different bookmarks stand in input order.
C5_Witness ==
    /\ pc = "done"
    /\ \E i \in 1..(Len(ideas) - 1) :
          FLess(ScoreOf(bookmarks[i]), ScoreOf(bookmarks[i + 1]))
    /\ \E i \in 1..(Len(ideas) - 1) :
          /\ ideas[i].buildable_score = ideas[i + 1].buildable_score
          /\ Source(ideas[i]) # Source(ideas[i + 1])

\* C6: with the filter flag set the output has one idea for each input
\* bookmark whose score is >= 0.6 and none for another, so every idea is
\* weekend-feasible, and if no input is feasible the output is empty and both
\* counts are zero; with the flag unset it has one idea for each bookmark.
C6_FilterKeepsExactlyFeasible ==
    pc = "done" =>
        /\ \A k \in 1..Len(bookmarks) :
              LET same(x) == Source(x) = <<bookmarks[k].name, bookmarks[k].url>>
                  twin(b) == b.name = bookmarks[k].name /\ b.url = bookmarks[k].url
              IN  CountIf(ideas, same) =
                     IF buildable_only /\ ~FGeq(ScoreOf(bookmarks[k]), F_0_6)
                     THEN 0 ELSE CountIf(bookmarks, twin)
        /\ buildable_only => \A i \in 1..Len(ideas) : ideas[i].weekend_feasible
        /\ ~buildable_only => Len(ideas) = Len(bookmarks)
        /\ summary.total = Len(ideas)
        /\ summary.weekend_count = CountIf(ideas, LAMBDA x : x.weekend_feasible)
        /\ (buildable_only /\ \A k \in 1..Len(bookmarks) :
                                 ~FGeq(ScoreOf(bookmarks[k]), F_0_6))
              => ideas = <<>> /\ summary.total = 0 /\ summary.weekend_count = 0

\* C6 witness: main has printed its counts for a filtered run over two
\* different bookmarks, both infeasible: no idea, both counts zero.
C6_Witness ==
    /\ pc = "done" /\ buildable_only
    /\ Len(bookmarks) = 2 /\ bookmarks[1] # bookmarks[2]
    /\ \A k \in 1..2 : ~FGeq(ScoreOf(bookmarks[k]), F_0_6)
    /\ ideas = <<>>
    /\ summary = [total |-> 0, weekend_count |-> 0]

\* the categories in the order the table defines them
TableOrder == <<"tools", "saas", "games", "hardware", "web", "ai_ml", "data",
                "creative", "dev_ops", "mobile">>

\* how many keywords of the category c occur in the lowercased text
MatchCount(c, text) ==
    LET row == CHOOSE r \in 1..Len(CATEGORIES) : CATEGORIES[r].category = c
        kws == {CATEGORIES[row].keywords[k] : k \in 1..Len(CATEGORIES[row].keywords)}
    IN  Cardinality({kw \in kws : Contains(Lower(kw), text)})

\* the counts of the categories, in table order, for bookmark bm
MatchCounts(bm) ==
    LET text == Lower(bm.name \o " " \o bm.url \o " " \o bm.domain)
    IN  [c \in 1..Len(TableOrder) |-> MatchCount(TableOrder[c], text)]

\* C7: the category of an idea has a positive keyword count that no category
\* exceeds, and is the first in table order of those with that count; it is
\* "other" exactly when every count is zero.
C7_CategoryIsFirstMaximum ==
    (pc = "done" /\ ~buildable_only) =>
        \A k \in 1..Len(bookmarks) :
            \E i \in 1..Len(ideas) :
                /\ ideas[i].source_bookmark = bookmarks[k].name
                /\ ideas[i].url = bookmarks[k].url
                /\ \A count \in {MatchCounts(bookmarks[k])}, cat \in {ideas[i].category} :
                       IF \A c \in 1..Len(TableOrder) : count[c] = 0
                       THEN cat = "other"
                       ELSE \E c \in 1..Len(TableOrder) :
                               /\ cat = TableOrder[c]
                               /\ count[c] > 0
                               /\ \A d \in 1..Len(TableOrder) : count[d] <= count[c]
                               /\ \A d \in 1..(c - 1) : count[d] < count[c]

\* C7 witness: one idea whose category ties with later ones (tools, saas,
\* web and mobile all count 1 for "React app | Site", tools wins), one whose
\* category has a higher count than a category before it and one after it
\* (tools 1, saas 1, web 2, mobile 1 for "React vue app", web wins), and
\* one idea of category other.
C7_Witness ==
    /\ pc = "done" /\ ~buildable_only
    /\ \E i, j, h \in 1..Len(ideas), k, n \in 1..Len(bookmarks) :
          /\ Source(ideas[i]) = <<bookmarks[k].name, bookmarks[k].url>>
          /\ ideas[i].category = "tools"
          /\ MatchCounts(bookmarks[k])[1] = 1
          /\ MatchCounts(bookmarks[k])[5] = 1
          /\ Source(ideas[h]) = <<bookmarks[n].name, bookmarks[n].url>>
          /\ ideas[h].category = "web"
          /\ MatchCounts(bookmarks[n])[1] = 1
          /\ MatchCounts(bookmarks[n])[5] = 2
          /\ MatchCounts(bookmarks[n])[10] = 1
          /\ ideas[j].category = "other"

\* 0.7 = 0x1.6666666666666p-1
F_0_7  == Float(1, 45875, 209715, 209712)
\* 0.85 = 0x1.b333333333333p-1
F_0_85 == Float(1, 55705, 629145, 629144)

\* the idea is that of the bookmark "Awesome CLI Tool - GitHub"
IsAwesome(idea) ==
    /\ idea.source_bookmark = "Awesome CLI Tool - GitHub"
    /\ idea.url = "https://github.com/foo/bar"

\* C8 as stated: the bookmark "Awesome CLI Tool - GitHub" at
\* https://github.com/foo/bar gets category tools and score 0.70, and is
\* weekend-feasible.
C8_AwesomeScores070 ==
    pc = "done" =>
        \A i \in 1..Len(ideas) :
            IsAwesome(ideas[i]) =>
                /\ ideas[i].category = "tools"
                /\ ideas[i].buildable_score = F_0_7
                /\ ideas[i].weekend_feasible

\* C8 amended: that bookmark gets category tools and score
\* 0.5 + 0.10 (cli) + 0.15 (category tools) + 0.10 (github) = 0.85, and is
\* weekend-feasible.
C8_AwesomeScores085 ==
    pc = "done" =>
        \A i \in 1..Len(ideas) :
            IsAwesome(ideas[i]) =>
                /\ ideas[i].category = "tools"
                /\ ideas[i].buildable_score = F_0_85
                /\ ideas[i].weekend_feasible
                /\ ideas[i].reasoning =
                      "Contains 1 easy-build indicators; Category is weekend-friendly; "
                      \o "GitHub project (likely has code reference)"

\* C8 witness: analyze has produced the idea of that bookmark.
C8_Witness ==
    /\ pc = "done"
    /\ \E i \in 1..Len(ideas) : IsAwesome(ideas[i])

\* C9: the GitHub bonus and its note are given if and only if the host of
\* the URL contains "github.com"; "github.com" in the path or query alone
\* gives none.
C9_GitHubBonusIffHost ==
    pc = "done" =>
        \A i \in 1..Len(ideas) :
            Contains("GitHub project (likely has code reference)", ideas[i].reasoning)
                <=> Contains("github.com", Netloc(ideas[i].url))

====
